---- MODULE Spec2Model ----
(***************************************************************************)
(* Model of docker-qgis/process_projectfile.py: the parse-error locator    *)
(* (get_location), the context extractor (contextualize), the project-file *)
(* validator (check_valid_project_file), and the project engine operations *)
(* (load_project_file, extract_project_details, generate_thumbnail).       *)
(*                                                                         *)
(* Strings are sequences of tokens (TLA+ strings), byte strings are        *)
(* sequences of integers 0..255, so decoding bytes to text is a real       *)
(* conversion that can fail.                                               *)
(***************************************************************************)
EXTENDS Integers, Sequences, FiniteSets, TLC

VARIABLES
  \* ---- get_location called on its own
  lin, lmsg, lres, lpc,
  \* ---- check_valid_project_file
  path, vpc, sufSeen, opened, stream, fpos, errmsg, ctx, raised, payload,
  \* ---- the project engine: QgsProject.instance() and the operations on it
  project, slots, ncalls, details, settings, returned, snap, lastRead, loaded,
  \* ---- generate_thumbnail in progress
  tpc, tcall, job, connected, posted, signalled, loop, imgTaken, finEarly,
  saved, tres

lvars == <<lin, lmsg, lres, lpc>>
vvars == <<path, vpc, sufSeen, opened, stream, fpos, errmsg, ctx, raised, payload>>
pvars == <<project, slots, ncalls, details, settings, returned, snap, lastRead, loaded>>
tvars == <<tpc, tcall, job, connected, posted, signalled, loop, imgTaken, finEarly,
           saved, tres>>
qvars == <<pvars, tvars>>

-----------------------------------------------------------------------------
(* Bounds *)

MaxLine == 2
MaxColumn == 3
MaxWords == 2
MaxBytes == 3
MaxCalls == 2

-----------------------------------------------------------------------------
(* Generic helpers *)

Min(a, b) == IF a < b THEN a ELSE b
Max(a, b) == IF a > b THEN a ELSE b

\* str.split(sep): cut at EVERY occurrence of sep, empty pieces are kept
RECURSIVE Split(_, _)
Split(s, sep) ==
  IF \A i \in 1..Len(s) : s[i] # sep
  THEN <<s>>
  ELSE LET k == CHOOSE i \in 1..Len(s) :
                   s[i] = sep /\ \A j \in 1..(i - 1) : s[j] # sep
       IN <<SubSeq(s, 1, k - 1)>> \o Split(SubSeq(s, k + 1, Len(s)), sep)

Whitespace == {" ", "\n"}

\* str.strip(): drop leading and trailing whitespace
RECURSIVE LStrip(_)
LStrip(s) ==
  IF s # <<>> /\ Head(s) \in Whitespace THEN LStrip(Tail(s)) ELSE s

RECURSIVE RStrip(_)
RStrip(s) ==
  IF s # <<>> /\ s[Len(s)] \in Whitespace
  THEN RStrip(SubSeq(s, 1, Len(s) - 1))
  ELSE s

Strip(s) == RStrip(LStrip(s))

-----------------------------------------------------------------------------
(* get_location, lines 28-39 *)

\* str.casefold() on the tokens of the message alphabet
casefold_exact(tok) == tok

casefold(tok) ==
  CASE tok = "Not Well-Formed (INVALID TOKEN)" -> "not well-formed (invalid token)"
    [] tok = "Invalid Token" -> "invalid token"
    [] OTHER -> tok

\* '"invalid token" in msg.casefold()'
HasInvalidToken(msg) ==
  \E i \in 1..Len(msg) :
     casefold(msg[i]) \in {"not well-formed (invalid token)", "invalid token"}

DigitTokens == {ToString(n) : n \in 0..9}

\* int(s) for a string made of digit tokens; IsInt is "int(s) does not raise"
IsInt(s) == s # <<>> /\ \A i \in 1..Len(s) : s[i] \in DigitTokens

RECURSIVE IntOf(_)
IntOf(s) ==
  IF s = <<>> THEN 0
  ELSE 10 * IntOf(SubSeq(s, 1, Len(s) - 1))
       + (CHOOSE n \in 0..9 : ToString(n) = s[Len(s)])

\* results of get_location: a location, None, or an exception
XmlErrorLocation(l, c) == [kind |-> "location", line |-> l, column |-> c, exc |-> "none"]
NoLocation == [kind |-> "none", line |-> 0, column |-> 0, exc |-> "none"]
LocationRaises(e) == [kind |-> "raise", line |-> 0, column |-> 0, exc |-> e]

get_location(msg) ==
  IF ~HasInvalidToken(msg) THEN NoLocation
  ELSE
    LET parts == Split(msg, ":") IN
    IF Len(parts) # 2 THEN LocationRaises("ValueError")
    ELSE
      LET clauses == Split(parts[2], ",") IN
      IF Len(clauses) # 2 THEN LocationRaises("ValueError")
      ELSE
        LET lw == Split(Strip(clauses[1]), " ")
            cw == Split(Strip(clauses[2]), " ")
        IN IF Len(lw) # 2 \/ Len(cw) # 2 THEN LocationRaises("ValueError")
           ELSE IF ~IsInt(lw[2]) \/ ~IsInt(cw[2]) THEN LocationRaises("ValueError")
           ELSE XmlErrorLocation(IntOf(lw[2]), IntOf(cw[2]))

-----------------------------------------------------------------------------
(* Error messages: "<label>: <words> N, <words> M" *)

Labels ==
  { <<"not well-formed (invalid token)">>,
    <<"Not Well-Formed (INVALID TOKEN)">>,
    <<"XML", " ", "Invalid Token">>,
    <<"mismatched tag">>,
    <<"unclosed token">> }

\* k words, the last of which is `word`, separated by single spaces
RECURSIVE Words(_, _)
Words(k, word) ==
  IF k <= 1 THEN <<word>> ELSE <<"at", " ">> \o Words(k - 1, word)

Message(label, lk, ck, n, m) ==
  label \o <<":", " ">> \o Words(lk, "line") \o <<" ", ToString(n)>>
        \o <<",", " ">> \o Words(ck, "column") \o <<" ", ToString(m)>>

LocateInputs ==
  [label : Labels, lk : 1..MaxWords, ck : 1..MaxWords,
   n : 1..MaxLine, m : 0..MaxColumn]

-----------------------------------------------------------------------------
(* contextualize, lines 42-65 *)

\* iteration over a binary file: each line ends with its "\n" (byte 10),
\* the last one possibly without
RECURSIVE Lines(_)
Lines(s) ==
  IF s = <<>> THEN <<>>
  ELSE LET k == IF \E i \in 1..Len(s) : s[i] = 10
                THEN CHOOSE i \in 1..Len(s) :
                        s[i] = 10 /\ \A j \in 1..(i - 1) : s[j] # 10
                ELSE Len(s)
       IN <<SubSeq(s, 1, k)>> \o Lines(SubSeq(s, k + 1, Len(s)))

\* fh.seek(target): the new position of the stream
seek(pos, target) == target

\* enumerate(fh, start=1): the lines from the current position on
ReadLines(s, pos) == Lines(SubSeq(s, pos + 1, Len(s)))

\* line[:e], with Python's meaning of a negative end
SliceTo(line, e) ==
  IF e >= 0
  THEN SubSeq(line, 1, Min(e, Len(line)))
  ELSE SubSeq(line, 1, Max(Len(line) + e, 0))

\* bytes.decode("utf-8") on the byte alphabet: ASCII decodes, 0xFF never does
CanDecode(bytes) == \A i \in 1..Len(bytes) : bytes[i] < 128

Chr(b) ==
  CASE b = 97 -> "a"
    [] b = 60 -> "<"
    [] b = 32 -> " "
    [] b = 10 -> "\n"
    [] OTHER -> "\\x" \o ToString(b)

decode(bytes) == [i \in 1..Len(bytes) |-> Chr(bytes[i])]

\* html.escape
EscapeChar(c) ==
  CASE c = "&" -> "&amp;"
    [] c = "<" -> "&lt;"
    [] c = ">" -> "&gt;"
    [] OTHER -> c

html_escape(text) == [i \in 1..Len(text) |-> EscapeChar(text[i])]

UnsetContext ==
  [kind |-> "unset", exc |-> "none", description |-> <<>>,
   prefix_message |-> <<>>, escaped_snippet |-> <<>>]
NoContext ==
  [kind |-> "none", exc |-> "none", description |-> <<>>,
   prefix_message |-> <<>>, escaped_snippet |-> <<>>]
ContextRaises(e) ==
  [kind |-> "raise", exc |-> e, description |-> <<>>,
   prefix_message |-> <<>>, escaped_snippet |-> <<>>]
ErrorContext(d, p, s) ==
  [kind |-> "context", exc |-> "none", description |-> d,
   prefix_message |-> p, escaped_snippet |-> s]

contextualize(msg, s, pos) ==
  LET location == get_location(msg) IN
  IF location.kind = "raise" THEN ContextRaises(location.exc)
  ELSE IF location.kind = "none" THEN NoContext
  ELSE
    LET lines == ReadLines(s, seek(pos, 0)) IN
    IF location.line \notin 1..Len(lines) THEN NoContext
    ELSE
      LET line == lines[location.line] IN
      IF location.column >= Len(line) THEN ContextRaises("IndexError")
      ELSE
        LET faulty_char == line[location.column + 1]
            suffix_slice == SliceTo(line, location.column - 1)
        IN IF ~CanDecode(suffix_slice) THEN ContextRaises("UnicodeDecodeError")
           ELSE
             LET clean_safe_slice == Strip(decode(suffix_slice)) \o <<"?">>
             IN ErrorContext(
                  <<"Unable to parse this character: ", ToString(faulty_char)>>,
                  <<"It was replaced by '", "?", "' on line ",
                    ToString(location.line), " that starts with:">>,
                  html_escape(clean_safe_slice))

-----------------------------------------------------------------------------
(* The project engine: data *)

Files == {"a.qgs", "b.qgs"}

\* a numeric project entry is <<v>>, or <<>> when it is not in the file
\* the content of the project files on disk, and of a cleared project
EmptyDoc ==
  [gui |-> [red |-> <<>>, green |-> <<>>, blue |-> <<>>],
   canvases |-> <<>>,
   crs |-> "", title |-> "",
   layerOrder |-> <<>>,
   hasAttachmentDirs |-> FALSE, attachmentDirs |-> <<>>]

DocOf(f) ==
  CASE f = "a.qgs" ->
         [gui |-> [red |-> <<>>, green |-> <<>>, blue |-> <<>>],
          canvases |-> << [name |-> "theMapCanvas", extent |-> <<0, 0, 8, 6>>,
                           rotation |-> 90] >>,
          crs |-> "EPSG:4326", title |-> "A",
          layerOrder |-> <<"l1", "l2">>,
          hasAttachmentDirs |-> FALSE, attachmentDirs |-> <<>>]
    [] f = "b.qgs" ->
         [gui |-> [red |-> <<0>>, green |-> <<0>>, blue |-> <<255>>],
          canvases |-> << [name |-> "theMapCanvas", extent |-> <<2, 2, 4, 4>>,
                           rotation |-> 0],
                          [name |-> "overview", extent |-> <<0, 0, 1, 1>>,
                           rotation |-> 0] >>,
          crs |-> "EPSG:3857", title |-> "B",
          layerOrder |-> <<>>,
          hasAttachmentDirs |-> TRUE, attachmentDirs |-> <<"photos">>]
    [] OTHER -> EmptyDoc

\* a key of the details dict that has not been set
NoValue == <<"<absent>">>

NoDetails ==
  [background_color |-> NoValue, extent |-> NoValue, crs |-> NoValue,
   project_name |-> NoValue, layers_by_id |-> NoValue,
   ordered_layer_ids |-> NoValue, attachment_dirs |-> NoValue]

\* QgsMapSettings()
QgsMapSettings ==
  [background |-> <<255, 255, 255>>, extent |-> <<0, 0, 0, 0>>, rotation |-> 0,
   size |-> <<0, 0>>, layers |-> <<>>, transformContext |-> "", pathResolver |-> ""]

NoRead == [by |-> 0, ok |-> FALSE, ran |-> <<>>, changed |-> {}]

QIdle ==
  /\ project = [fileName |-> "", doc |-> EmptyDoc]
  /\ slots = <<>>
  /\ ncalls = 0
  /\ details = [c \in 1..MaxCalls |-> NoDetails]
  /\ settings = [c \in 1..MaxCalls |-> QgsMapSettings]
  /\ returned = [c \in 1..MaxCalls |-> FALSE]
  /\ snap = [c \in 1..MaxCalls |-> NoDetails]
  /\ lastRead = NoRead
  /\ loaded = "none"
  /\ tpc = "idle"
  /\ tcall = 0
  /\ job = "none"
  /\ connected = FALSE
  /\ posted = FALSE
  /\ signalled = FALSE
  /\ loop = [inExec |-> FALSE, exit |-> FALSE]
  /\ imgTaken = FALSE
  /\ finEarly = FALSE
  /\ saved = [c \in 1..MaxCalls |-> "none"]
  /\ tres = [c \in 1..MaxCalls |-> "none"]

-----------------------------------------------------------------------------
(* Specification of get_location applied to one message *)

VIdle ==
  /\ path = [exists |-> FALSE, suffix |-> ""]
  /\ vpc = "off"
  /\ sufSeen = FALSE
  /\ opened = FALSE
  /\ stream = <<>>
  /\ fpos = 0
  /\ errmsg = <<>>
  /\ ctx = UnsetContext
  /\ raised = "none"
  /\ payload = <<>>

InitL ==
  /\ lin \in LocateInputs
  /\ lmsg = Message(lin.label, lin.lk, lin.ck, lin.n, lin.m)
  /\ lres = [kind |-> "unset", line |-> 0, column |-> 0, exc |-> "none"]
  /\ lpc = "call"
  /\ VIdle
  /\ QIdle

Locate ==
  /\ lpc = "call"
  /\ lres' = get_location(lmsg)
  /\ lpc' = "done"
  /\ UNCHANGED <<lin, lmsg>>
  /\ UNCHANGED <<vvars, qvars>>

NextL == Locate

vars == <<lvars, vvars, qvars>>

SpecL == InitL /\ [][NextL]_vars

-----------------------------------------------------------------------------
(* C2 *)

\* the labels of the message alphabet that read "invalid token" in some case
InvalidTokenLabels ==
  { <<"not well-formed (invalid token)">>,
    <<"Not Well-Formed (INVALID TOKEN)">>,
    <<"XML", " ", "Invalid Token">> }

\* C2 (as stated): every message that contains "invalid token" and whose
\* details read "<words> N, <words> M" is located at (N, M), whatever the
\* number of words before each integer; a message without "invalid token"
\* gives not-found without raising.
C2_Original ==
  lpc = "done" =>
    IF lin.label \in InvalidTokenLabels
    THEN lres = XmlErrorLocation(lin.n, lin.m)
    ELSE lres = NoLocation

\* C2 (amended): the same, for messages whose clauses have exactly one word
\* before the integer ("line N, column M").
C2_Locates ==
  lpc = "done" =>
    IF lin.label \in InvalidTokenLabels
    THEN (lin.lk = 1 /\ lin.ck = 1) => lres = XmlErrorLocation(lin.n, lin.m)
    ELSE lres = NoLocation

C2_Witness ==
  /\ lpc = "done"
  /\ lin.label = <<"Not Well-Formed (INVALID TOKEN)">>
  /\ lin.lk = 1 /\ lin.ck = 1
  /\ lres = XmlErrorLocation(2, 3)

-----------------------------------------------------------------------------
(* check_valid_project_file, lines 68-94 *)

Suffixes == {".qgs", ".qgz", ".txt"}

Paths == [exists : BOOLEAN, suffix : Suffixes]

ByteAlphabet == {97, 60, 32, 10, 255}

Streams == UNION {[1..n -> ByteAlphabet] : n \in 0..MaxBytes}

\* what str(error) of an ElementTree.ParseError looks like
ParserLabels == { <<"not well-formed (invalid token)">>, <<"mismatched tag">> }

ParseErrors ==
  {Message(label, 1, 1, n, m) :
     label \in ParserLabels, n \in 1..MaxLine, m \in 0..MaxColumn}

LIdle ==
  /\ lin = [label |-> <<>>, lk |-> 1, ck |-> 1, n |-> 1, m |-> 0]
  /\ lmsg = <<>>
  /\ lres = [kind |-> "unset", line |-> 0, column |-> 0, exc |-> "none"]
  /\ lpc = "off"

InitV ==
  /\ path \in Paths
  /\ vpc = "unchecked"
  /\ sufSeen = FALSE
  /\ opened = FALSE
  /\ stream = <<>>
  /\ fpos = 0
  /\ errmsg = <<>>
  /\ ctx = UnsetContext
  /\ raised = "none"
  /\ payload = <<>>
  /\ LIdle
  /\ QIdle

\* lines 71-72
V_ExistsSkipped ==
  /\ vpc = "unchecked"
  /\ vpc' = "exists"
  /\ UNCHANGED <<path, sufSeen, opened, stream, fpos, errmsg, ctx, raised, payload>>
  /\ UNCHANGED <<lvars, qvars>>

V_Exists ==
  /\ vpc = "unchecked"
  /\ IF ~path.exists
     THEN /\ raised' = "ProjectFileNotFoundException"
          /\ vpc' = "invalid"
     ELSE /\ raised' = raised
          /\ vpc' = "exists"
  /\ UNCHANGED <<path, sufSeen, opened, stream, fpos, errmsg, ctx, payload>>
  /\ UNCHANGED <<lvars, qvars>>

\* lines 74, 89-94
V_Suffix ==
  /\ vpc = "exists"
  /\ sufSeen' = TRUE
  /\ IF path.suffix = ".qgs"
     THEN /\ vpc' = "open"
          /\ UNCHANGED <<raised, payload>>
     ELSE IF path.suffix # ".qgz"
     THEN /\ raised' = "InvalidFileExtensionException"
          /\ payload' = <<path.suffix>>
          /\ vpc' = "invalid"
     ELSE /\ vpc' = "valid"
          /\ UNCHANGED <<raised, payload>>
  /\ UNCHANGED <<path, opened, stream, fpos, errmsg, ctx>>
  /\ UNCHANGED <<lvars, qvars>>

\* line 75: the file is opened; its content is whatever is on disk
V_Open ==
  /\ vpc = "open"
  /\ opened' = TRUE
  /\ stream' \in Streams
  /\ fpos' = 0
  /\ vpc' = "parse"
  /\ UNCHANGED <<path, sufSeen, errmsg, ctx, raised, payload>>
  /\ UNCHANGED <<lvars, qvars>>

\* lines 76-80: the parser consumes the stream in chunks and either reaches
\* the end or stops with a ParseError somewhere
V_Parse ==
  /\ vpc = "parse"
  /\ \/ /\ fpos' = Len(stream)
        /\ vpc' = "valid"
        /\ errmsg' = errmsg
     \/ /\ fpos' \in 0..Len(stream)
        /\ errmsg' \in ParseErrors
        /\ vpc' = "except"
  /\ UNCHANGED <<path, sufSeen, opened, stream, ctx, raised, payload>>
  /\ UNCHANGED <<lvars, qvars>>

\* lines 81-88
V_Except ==
  /\ vpc = "except"
  /\ LET xml_error == contextualize(errmsg, stream, fpos) IN
     /\ ctx' = xml_error
     /\ IF xml_error.kind = "raise"
        THEN /\ raised' = xml_error.exc
             /\ payload' = payload
        ELSE /\ raised' = "InvalidXmlFileException"
             /\ payload' = IF xml_error.kind = "context"
                            THEN xml_error.description \o xml_error.prefix_message
                                 \o xml_error.escaped_snippet
                            ELSE errmsg
  /\ vpc' = "invalid"
  /\ UNCHANGED <<path, sufSeen, opened, stream, fpos, errmsg>>
  /\ UNCHANGED <<lvars, qvars>>

NextV == V_Exists \/ V_Suffix \/ V_Open \/ V_Parse \/ V_Except

SpecV == InitV /\ [][NextV]_vars

-----------------------------------------------------------------------------
(* C1, C3, C4, C5, C6 *)

\* the location the parser reported, read with the format of the message
ReportedLine == IntOf(<<errmsg[Len(errmsg) - 5]>>)
ReportedColumn == IntOf(<<errmsg[Len(errmsg)]>>)
Handled == vpc = "invalid" /\ errmsg # <<>>

\* C1: a .qgs file whose parse reports an error ends in InvalidXml and in no
\* other exception, carrying the joined context or the raw parser message.
C1_OnlyInvalidXml ==
  Handled =>
    /\ raised = "InvalidXmlFileException"
    /\ payload = IF ctx.kind = "context"
                 THEN ctx.description \o ctx.prefix_message \o ctx.escaped_snippet
                 ELSE errmsg

\* C3: contextualize never raises, it returns a three-part context or nothing.
C3_NeverRaises ==
  Handled => ctx.kind \in {"context", "none"}

\* C4: when the located line exists, the snippet is the escaped, trimmed
\* decoding of the bytes of that line strictly before the 1-based target
\* column, followed by "?", wherever the stream was positioned.
C4_SnippetIsPrefix ==
  (Handled /\ ctx.kind = "context") =>
    LET line == Lines(stream)[ReportedLine]
        before == SubSeq(line, 1, ReportedColumn - 1)
    IN ctx.escaped_snippet = html_escape(Strip(decode(before))) \o <<"?">>

\* C5: the faulty byte reported in the description is the byte at the 1-based
\* target column, the one right after the bytes of the snippet prefix.
C5_FaultyByteFollowsPrefix ==
  (Handled /\ ctx.kind = "context" /\ ReportedColumn >= 1) =>
    LET line == Lines(stream)[ReportedLine]
    IN ctx.description[2] = ToString(line[ReportedColumn])

\* C6: a path that does not exist ends in FileNotFound, before any file is
\* opened and before the extension is examined, and never becomes valid.
C6_MissingFileFirst ==
  ~path.exists =>
    /\ ~opened
    /\ ~sufSeen
    /\ vpc \in {"unchecked", "invalid"}
    /\ vpc = "invalid" => raised = "ProjectFileNotFoundException"

C6_Witness ==
  /\ ~path.exists
  /\ path.suffix = ".txt"
  /\ vpc = "invalid"
  /\ raised = "ProjectFileNotFoundException"

-----------------------------------------------------------------------------
(* The project engine: the project-read callbacks, lines 118-141, 178-199 *)

\* project.readNumEntry(scope, key, default)
readNumEntry(entry, default) == IF entry = <<>> THEN default ELSE entry[1]

HexDigit(n) ==
  CASE n < 10 -> ToString(n)
    [] n = 10 -> "a" [] n = 11 -> "b" [] n = 12 -> "c"
    [] n = 13 -> "d" [] n = 14 -> "e" [] OTHER -> "f"

\* QColor.name(): "#rrggbb"
ColorName(rgb) ==
  <<"#">> \o <<HexDigit(rgb[1] \div 16), HexDigit(rgb[1] % 16)>>
         \o <<HexDigit(rgb[2] \div 16), HexDigit(rgb[2] % 16)>>
         \o <<HexDigit(rgb[3] \div 16), HexDigit(rgb[3] % 16)>>

\* QgsRectangle.asWktPolygon()
asWktPolygon(r) ==
  <<"POLYGON((", ToString(r[1]), ToString(r[2]), ToString(r[3]), ToString(r[4]), "))">>

\* the loop over the "mapcanvas" nodes: readXml for each node named theMapCanvas
RECURSIVE ReadCanvases(_, _)
ReadCanvases(nodes, ms) ==
  IF nodes = <<>> THEN ms
  ELSE ReadCanvases(Tail(nodes),
         IF Head(nodes).name = "theMapCanvas"
         THEN [ms EXCEPT !.extent = Head(nodes).extent,
                         !.rotation = Head(nodes).rotation]
         ELSE ms)

Reverse(q) == [i \in 1..Len(q) |-> q[Len(q) + 1 - i]]

\* one callback, run for the document that was read; st holds the details
\* dicts and the map settings the closures refer to
on_project_read(slot, doc, st) ==
  LET c == slot.call
      background_color == << readNumEntry(doc.gui.red, 255),
                             readNumEntry(doc.gui.green, 255),
                             readNumEntry(doc.gui.blue, 255) >>
      ms1 == ReadCanvases(doc.canvases,
                          [st.settings[c] EXCEPT !.background = background_color])
  IN IF slot.op = "extract"
     THEN LET ms2 == [ms1 EXCEPT !.rotation = 0, !.size = <<1024, 768>>]
          IN [details |-> [st.details EXCEPT
                             ![c].background_color = ColorName(background_color),
                             ![c].extent = asWktPolygon(ms2.extent)],
              settings |-> [st.settings EXCEPT ![c] = ms2]]
     ELSE LET ms2 == [ms1 EXCEPT !.rotation = 0,
                                 !.transformContext = doc.crs,
                                 !.pathResolver = doc.title,
                                 !.size = <<100, 100>>,
                                 !.layers = Reverse(doc.layerOrder)]
          IN [details |-> st.details,
              settings |-> [st.settings EXCEPT ![c] = ms2]]

\* the slots of project.readProject that an emission runs
EmitTo(ss) == ss

RECURSIVE RunSlots(_, _, _)
RunSlots(ss, doc, st) ==
  IF ss = <<>> THEN st
  ELSE RunSlots(Tail(ss), doc, on_project_read(Head(ss), doc, st))

\* the outcomes of project.read(f): a file name that was never set cannot be
\* read, any other read succeeds or fails
ReadOutcomes(f) == IF f = "" THEN {FALSE} ELSE BOOLEAN

\* project.read(f) with the slots ss connected: the project afterwards, the
\* state of the closures, and the record of the read (who read, which slots
\* ran, which details already returned to a caller were rewritten)
read(f, ok, ss, st, by) ==
  IF ok
  THEN LET after == RunSlots(EmitTo(ss), DocOf(f), st)
       IN [project |-> [fileName |-> f, doc |-> DocOf(f)],
           st |-> after,
           lastRead |-> [by |-> by, ok |-> TRUE, ran |-> EmitTo(ss),
                         changed |-> {c \in DOMAIN st.details :
                                        returned[c] /\ after.details[c] # st.details[c]}]]
  ELSE [project |-> [fileName |-> f, doc |-> EmptyDoc],
        st |-> st,
        lastRead |-> [by |-> by, ok |-> FALSE, ran |-> <<>>, changed |-> {}]]

Closures == [details |-> details, settings |-> settings]

-----------------------------------------------------------------------------
(* load_project_file, lines 97-106 *)

load_project_file ==
  /\ tpc = "idle"
  /\ \E f \in Files : \E ok \in ReadOutcomes(f) :
       LET r == read(f, ok, slots, Closures, 0) IN
       /\ project' = r.project
       /\ details' = r.st.details
       /\ settings' = r.st.settings
       /\ lastRead' = r.lastRead
       /\ loaded' = IF ok THEN "opened" ELSE "InvalidXmlFileException"
  /\ UNCHANGED <<slots, ncalls, returned, snap>>
  /\ UNCHANGED <<lvars, vvars, tvars>>

-----------------------------------------------------------------------------
(* extract_project_details, lines 109-161 *)

\* get_layers_data(project): an ordered mapping layer id -> descriptor
get_layers_data(doc) ==
  [i \in 1..Len(doc.layerOrder) |-> <<doc.layerOrder[i], "descriptor">>]

keys(mapping) == [i \in 1..Len(mapping) |-> mapping[i][1]]

\* project.readListEntry("QFieldSync", "attachmentDirs", ["DCIM"])
readListEntry(doc, default) ==
  IF doc.hasAttachmentDirs THEN doc.attachmentDirs ELSE default

extract_project_details ==
  /\ tpc = "idle"
  /\ ncalls < MaxCalls
  /\ LET c == ncalls + 1
         connectedSlots == Append(slots, [op |-> "extract", call |-> c])
         fresh == [details |-> [details EXCEPT ![c] = NoDetails],
                   settings |-> [settings EXCEPT ![c] = QgsMapSettings]]
     IN \E ok \in ReadOutcomes(project.fileName) :
          LET r == read(project.fileName, ok, connectedSlots, fresh, c)
              layers_by_id == get_layers_data(r.project.doc)
              result == [r.st.details[c] EXCEPT
                           !.crs = <<r.project.doc.crs>>,
                           !.project_name = <<r.project.doc.title>>,
                           !.layers_by_id = layers_by_id,
                           !.ordered_layer_ids = keys(layers_by_id),
                           !.attachment_dirs = readListEntry(r.project.doc, <<"DCIM">>)]
          IN /\ slots' = connectedSlots
             /\ ncalls' = c
             /\ project' = r.project
             /\ lastRead' = r.lastRead
             /\ details' = [r.st.details EXCEPT ![c] = result]
             /\ settings' = r.st.settings
             /\ returned' = [returned EXCEPT ![c] = TRUE]
             /\ snap' = [snap EXCEPT ![c] = result]
  /\ UNCHANGED loaded
  /\ UNCHANGED <<lvars, vvars, tvars>>

-----------------------------------------------------------------------------
(* generate_thumbnail, lines 164-219 *)

\* lines 175-204: the settings, the callback, the read
T_Read ==
  /\ tpc = "idle"
  /\ ncalls < MaxCalls
  /\ LET c == ncalls + 1
         connectedSlots == Append(slots, [op |-> "thumbnail", call |-> c])
         fresh == [details |-> details,
                   settings |-> [settings EXCEPT ![c] = QgsMapSettings]]
     IN \E ok \in ReadOutcomes(project.fileName) :
          LET r == read(project.fileName, ok, connectedSlots, fresh, c)
          IN /\ slots' = connectedSlots
             /\ ncalls' = c
             /\ tcall' = c
             /\ project' = r.project
             /\ lastRead' = r.lastRead
             /\ details' = r.st.details
             /\ settings' = r.st.settings
             /\ tres' = [tres EXCEPT ![c] = "pending"]
  /\ tpc' = "job"
  /\ job' = "none"
  /\ connected' = FALSE
  /\ posted' = FALSE
  /\ signalled' = FALSE
  /\ loop' = [inExec |-> FALSE, exit |-> FALSE]
  /\ imgTaken' = FALSE
  /\ finEarly' = FALSE
  /\ UNCHANGED <<returned, snap, loaded, saved>>
  /\ UNCHANGED <<lvars, vvars>>

\* lines 206-209: the job, the event loop, finished connected to quit
T_Connect ==
  /\ tpc = "job"
  /\ job' = "created"
  /\ loop' = [inExec |-> FALSE, exit |-> FALSE]
  /\ connected' = TRUE
  /\ tpc' = "start"
  /\ UNCHANGED <<tcall, posted, signalled, imgTaken, finEarly, saved, tres>>
  /\ UNCHANGED <<lvars, vvars, pvars>>

\* line 210
T_Start ==
  /\ tpc = "start"
  /\ job' = "running"
  /\ tpc' = "exec"
  /\ UNCHANGED <<tcall, connected, posted, signalled, loop, imgTaken, finEarly,
                 saved, tres>>
  /\ UNCHANGED <<lvars, vvars, pvars>>

\* line 212: the caller enters the event loop
T_Exec ==
  /\ tpc = "exec"
  /\ loop' = [inExec |-> TRUE, exit |-> FALSE]
  /\ tpc' = "waiting"
  /\ UNCHANGED <<tcall, job, connected, posted, signalled, imgTaken, finEarly,
                 saved, tres>>
  /\ UNCHANGED <<lvars, vvars, pvars>>

\* the engine's worker ends the rendering at any time after the start and
\* queues the completion for the thread that owns the job, the caller's
R_Finish ==
  /\ job = "running"
  /\ job' = "done"
  /\ posted' = TRUE
  /\ finEarly' = (tpc # "waiting")
  /\ UNCHANGED <<tpc, tcall, connected, signalled, loop, imgTaken, saved, tres>>
  /\ UNCHANGED <<lvars, vvars, pvars>>

\* QEventLoop.quit(): ends a running loop, does nothing to one that is not
\* running (exec_ clears the flag when it is entered)
quit(l) == IF l.inExec THEN [l EXCEPT !.exit = TRUE] ELSE l

\* line 209 at work: the queued completion is processed by the caller's
\* thread, which processes events only while it is inside exec_(); the job
\* emits finished and the connected slot runs
Q_DispatchAnywhere ==
  /\ posted
  /\ posted' = FALSE
  /\ signalled' = TRUE
  /\ loop' = IF connected THEN quit(loop) ELSE loop
  /\ UNCHANGED <<tpc, tcall, job, connected, imgTaken, finEarly, saved, tres>>
  /\ UNCHANGED <<lvars, vvars, pvars>>

Q_Dispatch ==
  /\ posted
  /\ loop.inExec
  /\ posted' = FALSE
  /\ signalled' = TRUE
  /\ loop' = IF connected THEN quit(loop) ELSE loop
  /\ UNCHANGED <<tpc, tcall, job, connected, imgTaken, finEarly, saved, tres>>
  /\ UNCHANGED <<lvars, vvars, pvars>>

\* line 212: exec_() returns once the loop was told to quit
T_ExecReturnsAtOnce ==
  /\ tpc = "waiting"
  /\ loop' = [inExec |-> FALSE, exit |-> FALSE]
  /\ tpc' = "save"
  /\ UNCHANGED <<tcall, job, connected, posted, signalled, imgTaken, finEarly,
                 saved, tres>>
  /\ UNCHANGED <<lvars, vvars, pvars>>

T_ExecReturn ==
  /\ tpc = "waiting"
  /\ loop.exit
  /\ loop' = [inExec |-> FALSE, exit |-> FALSE]
  /\ tpc' = "save"
  /\ UNCHANGED <<tcall, job, connected, posted, signalled, imgTaken, finEarly,
                 saved, tres>>
  /\ UNCHANGED <<lvars, vvars, pvars>>

\* lines 214-219: the image is taken from the job and saved
T_Save ==
  /\ tpc = "save"
  /\ imgTaken' = TRUE
  /\ \E ok \in BOOLEAN :
       /\ saved' = [saved EXCEPT ![tcall] = IF ok THEN "saved" ELSE "failed"]
       /\ tres' = [tres EXCEPT ![tcall] =
                     IF ok THEN "returned" ELSE "FailedThumbnailGenerationException"]
  /\ tpc' = "idle"
  /\ UNCHANGED <<tcall, job, connected, posted, signalled, loop, finEarly>>
  /\ UNCHANGED <<lvars, vvars, pvars>>

-----------------------------------------------------------------------------
(* Specification of the project engine *)

InitQ == LIdle /\ VIdle /\ QIdle

NextQ ==
  \/ load_project_file
  \/ extract_project_details
  \/ T_Read
  \/ T_Connect
  \/ T_Start
  \/ T_Exec
  \/ R_Finish
  \/ Q_Dispatch
  \/ T_ExecReturn
  \/ T_Save

SpecQ == InitQ /\ [][NextQ]_vars

\* the caller's thread keeps running: each step of generate_thumbnail that can
\* be taken is taken, and a running event loop processes its queued events
FairSpecQ ==
  /\ SpecQ
  /\ WF_vars(T_Connect)
  /\ WF_vars(T_Start)
  /\ WF_vars(T_Exec)
  /\ WF_vars(Q_Dispatch)
  /\ WF_vars(T_ExecReturn)
  /\ WF_vars(T_Save)

-----------------------------------------------------------------------------
(* C7, C8, C9, C10 *)

Calls == 1..MaxCalls

C8_DetailsComplete ==
  \A c \in Calls :
    returned[c] =>
      /\ snap[c].background_color # NoValue
      /\ snap[c].extent # NoValue
      /\ snap[c].crs # NoValue
      /\ snap[c].project_name # NoValue
      /\ snap[c].layers_by_id # NoValue
      /\ snap[c].ordered_layer_ids # NoValue
      /\ snap[c].attachment_dirs # NoValue

\* C9: finished is connected before the job is started, the image is taken
\* only after the job has signalled completion, a failed save ends in
\* ThumbnailGenerationFailed and a successful one in a normal return.
C9_RenderOrder ==
  /\ job \in {"running", "done"} => connected
  /\ tpc = "save" => signalled
  /\ imgTaken => signalled
  /\ \A c \in Calls :
       /\ tres[c] = "FailedThumbnailGenerationException" <=> saved[c] = "failed"
       /\ tres[c] = "returned" <=> saved[c] = "saved"

C9_Witness ==
  /\ tcall \in Calls
  /\ imgTaken
  /\ signalled
  /\ saved[tcall] = "failed"
  /\ tres[tcall] = "FailedThumbnailGenerationException"

\* C10: a read performed by extract_project_details or generate_thumbnail
\* runs exactly one callback, the one that operation registered, and the
\* details an earlier call returned are not changed afterwards.
C10_OneCallbackPerRead ==
  (lastRead.ok /\ lastRead.by # 0) =>
     /\ Len(lastRead.ran) = 1
     /\ lastRead.ran[1].call = lastRead.by
     /\ lastRead.changed = {}

====
